---- MODULE Spec2Model ----
(***************************************************************************)
(* Model of scripts/build_docs.py: DocumentationBuilder, the sequential    *)
(* fetch -> normalize -> build pipeline, its workspace directories, the    *)
(* landing page and the link-stripping transform.                          *)
(*                                                                         *)
(* The filesystem is a function from paths (tuples of names) to nodes.     *)
(* Text is a sequence of tokens; the two URLs of urls_to_remove are cut    *)
(* into their common prefix, the product name and their common suffix.     *)
(* Line 87 of the source ends in "." where "," was meant, which does not   *)
(* compile; urls_to_remove is modelled as the list of the two literals.    *)
(***************************************************************************)
EXTENDS Integers, Sequences, FiniteSets, TLC

VARIABLES config, remote, fs, pc, i, doc_path, source_path,
          success_count, total_count, calls, exit_status,
          content, processed

vars == <<config, remote, fs, pc, i, doc_path, source_path,
          success_count, total_count, calls, exit_status,
          content, processed>>

(* ------------------------------ bounds --------------------------------- *)
MaxRepos == 2
MaxLen == 6
MaxClock == 2

(* Python's None where a path is expected: the empty path *)
None == <<>>

(* ---------------------------- text model ------------------------------- *)
UrlPrefix == "https://clouddocs.f5.com/training/community/"
UrlSuffix == "-training/html/"
Tokens == {UrlPrefix, "rseries", "velos", UrlSuffix, "x"}

urls_to_remove ==
  << <<UrlPrefix, "rseries", UrlSuffix>>,
     <<UrlPrefix, "velos", UrlSuffix>> >>

StartsWith(s, old) ==
  /\ Len(old) <= Len(s)
  /\ SubSeq(s, 1, Len(old)) = old

(* str.replace(old, ""): one left-to-right scan, non-overlapping matches *)
RECURSIVE Replace(_, _)
Replace(s, old) ==
  IF Len(s) < Len(old) \/ old = <<>> THEN s
  ELSE IF StartsWith(s, old)
       THEN Replace(SubSeq(s, Len(old) + 1, Len(s)), old)
       ELSE <<Head(s)>> \o Replace(Tail(s), old)

RECURSIVE StripEach(_, _)
StripEach(c, urls) ==
  IF urls = <<>> THEN c
  ELSE StripEach(Replace(c, Head(urls)), Tail(urls))

preprocess_file_content(c) == StripEach(c, urls_to_remove)

Contains(s, sub) ==
  \E k \in 1..(Len(s) - Len(sub) + 1) : SubSeq(s, k, k + Len(sub) - 1) = sub

(* --------------------------- filesystem -------------------------------- *)
Dir == [kind |-> "dir"]
File(d) == [kind |-> "file", data |-> d]
EmptyFs == [q \in {} |-> Dir]

temp_dir == <<"_temp">>
build_dir == <<"_build">>
source_dir == <<"_source">>
HtmlDir == build_dir \o <<"html">>
IndexPath == HtmlDir \o <<"index.html">>

IsPrefix(p, q) == Len(p) <= Len(q) /\ SubSeq(q, 1, Len(p)) = p

FileNotFound == (<<"FileNotFoundError">> :> Dir)
Raised(f) == <<"FileNotFoundError">> \in DOMAIN f

exists(f, p) == p \in DOMAIN f
is_file(f, p) == exists(f, p) /\ f[p].kind = "file"
is_dir(f, p) == exists(f, p) /\ f[p].kind = "dir"

rmtree(f, p) ==
  IF Raised(f) THEN f
  ELSE IF ~exists(f, p) THEN FileNotFound
  ELSE [q \in {q \in DOMAIN f : ~IsPrefix(p, q)} |-> f[q]]

(* Path.mkdir(parents=True, exist_ok=True); the roots have no parents *)
mkdir(f, p) ==
  IF Raised(f) THEN f
  ELSE [q \in DOMAIN f \cup {SubSeq(p, 1, k) : k \in 1..Len(p)} |->
          IF q \in DOMAIN f THEN f[q] ELSE Dir]

write(f, p, d) == [q \in DOMAIN f \cup {p} |-> IF q = p THEN File(d) ELSE f[q]]

iterdir(f, p) == {q \in DOMAIN f : Len(q) = Len(p) + 1 /\ IsPrefix(p, q)}

Name(p) == p[Len(p)]

Children(f, p) == {q \in DOMAIN f : IsPrefix(p, q)}

(* shutil.copytree(src, dst, dirs_exist_ok=True) *)
copytree(f, src, dst) ==
  LET Dst(q) == dst \o SubSeq(q, Len(src) + 1, Len(q))
      new == {Dst(q) : q \in Children(f, src)}
      Src(d) == CHOOSE q \in Children(f, src) : Dst(q) = d
  IN [q \in DOMAIN f \cup new |-> IF q \in new THEN f[Src(q)] ELSE f[q]]

RmIfExists(f, p) == IF exists(f, p) THEN rmtree(f, p) ELSE f

(* clean_directories without the rmtree of source_dir *)
clean_directories_keep(f) ==
  LET f1 == RmIfExists(f, temp_dir)
      f2 == RmIfExists(f1, build_dir)
  IN mkdir(mkdir(mkdir(f2, temp_dir), build_dir), source_dir)

clean_directories(f) ==
  LET f1 == RmIfExists(f, temp_dir)
      f2 == RmIfExists(f1, build_dir)
      f3 == RmIfExists(f2, source_dir)
  IN mkdir(mkdir(mkdir(f3, temp_dir), build_dir), source_dir)

(* ------------------------- configuration ------------------------------- *)
RepoNames == <<"A", "B", "C", "D">>
Names == {RepoNames[k] : k \in 1..MaxRepos}
UrlOf(n) == <<"https://github.com", n>>

Descriptors ==
  UNION {{[name |-> n, url |-> UrlOf(n)],
          [name |-> n, url |-> UrlOf(n), type |-> "sphinx"],
          [name |-> n, url |-> UrlOf(n), type |-> "other"]} : n \in Names}

Configs ==
  UNION {{c \in [1..k -> Descriptors] :
            \A a, b \in 1..k : a # b => c[a].name # c[b].name} : k \in 0..MaxRepos}

(* dict.get(key, default) *)
Get(d, key, default) == IF key \in DOMAIN d THEN d[key] ELSE default

(* ---------------------- remote repositories ---------------------------- *)
DocItems ==
  {[name |-> "index.rst", suffix |-> ".rst", kind |-> "file"],
   [name |-> "README.md", suffix |-> ".md", kind |-> "file"],
   [name |-> "notes.txt", suffix |-> ".txt", kind |-> "file"],
   [name |-> "logo.png", suffix |-> ".png", kind |-> "file"],
   [name |-> "conf.py", suffix |-> ".py", kind |-> "file"],
   [name |-> "_build", suffix |-> "", kind |-> "dir"],
   [name |-> "__pycache__", suffix |-> "", kind |-> "dir"],
   [name |-> "images", suffix |-> "", kind |-> "dir"],
   [name |-> "api.rst", suffix |-> ".rst", kind |-> "dir"]}

(* pathlib's PurePath.suffix of the names above *)
suffix(n) == (CHOOSE it \in DocItems : it.name = n).suffix

RemoteContent(n) ==
  CASE n = "index.rst" ->
         <<"x", UrlPrefix, "rseries", UrlSuffix, "x", UrlPrefix, "velos", UrlSuffix>>
    [] n = "README.md" -> <<UrlPrefix, "velos", UrlSuffix, "x">>
    [] n = "notes.txt" -> <<"x", UrlPrefix, "rseries", UrlSuffix>>
    [] n = "conf.py" -> <<"project", "upstream", "html_theme", "sphinx_rtd_theme">>
    [] OTHER -> <<"x">>

(* the documentation directory of the pipeline runs: one item of each kind *)
SmallDocs == {DocItems}

(* a remote: whether the clone succeeds, whether the configured            *)
(* documentation directory is in it, and that directory's top-level items  *)
RemoteStates(family) ==
  {[reachable |-> FALSE, has_docs |-> FALSE, docs |-> {}],
   [reachable |-> TRUE, has_docs |-> FALSE, docs |-> {}]} \cup
  {[reachable |-> TRUE, has_docs |-> TRUE, docs |-> d] : d \in family}

(* the tree a successful clone leaves at repo_path *)
CloneTree(repo_path, doc_dir, r) ==
  LET root == (repo_path :> Dir)
      dp == repo_path \o <<doc_dir>>
      Item(q) == CHOOSE it \in r.docs : it.name = Name(q)
      top == [q \in {dp \o <<it.name>> : it \in r.docs} |->
                IF Item(q).kind = "file" THEN File(RemoteContent(Name(q))) ELSE Dir]
      sub == [q \in {dp \o <<it.name, "page.html">> :
                       it \in {it \in r.docs : it.kind = "dir"}} |-> File(<<"x">>)]
  IN IF r.has_docs THEN root @@ (dp :> Dir) @@ top @@ sub ELSE root

(* ---------------------------- operations ------------------------------- *)
(* fetch_repository without the doc_path.exists() test *)
fetch_repository_nocheck(f, repo_config, r) ==
  LET repo_path == temp_dir \o <<repo_config.name>>
      doc_dir == Get(repo_config, "dir", "docs")
      f1 == IF exists(f, repo_path) THEN rmtree(f, repo_path) ELSE f
      f2 == IF r.reachable THEN f1 @@ CloneTree(repo_path, doc_dir, r) ELSE f1
  IN IF ~r.reachable THEN [fs |-> f2, doc_path |-> None]
     ELSE [fs |-> f2, doc_path |-> repo_path \o <<doc_dir>>]

(* fetch_repository: the filesystem after it and the path it returns *)
fetch_repository(f, repo_config, r) ==
  LET repo_name == repo_config.name
      doc_dir == Get(repo_config, "dir", "docs")
      repo_path == temp_dir \o <<repo_name>>
      f1 == IF exists(f, repo_path) THEN rmtree(f, repo_path) ELSE f
      f2 == IF r.reachable THEN f1 @@ CloneTree(repo_path, doc_dir, r) ELSE f1
      dp == repo_path \o <<doc_dir>>
  IN IF ~r.reachable THEN [fs |-> f2, doc_path |-> None]
     ELSE IF ~exists(f2, dp) THEN [fs |-> f2, doc_path |-> None]
     ELSE [fs |-> f2, doc_path |-> dp]

TextSuffixes == {".rst", ".md"}
PlainSuffixes == {".txt"}
(* the exclusion list without _build *)
ExcludedDirs_pycache == {"__pycache__"}
ExcludedDirs == {"_build", "__pycache__"}

ConfContent(repo_name) ==
  <<"project", repo_name, "html_theme", "shibuya", "html_title", repo_name,
    "html_show_sourcelink", "False", "html_show_sphinx", "False",
    "html_show_copyright", "True">>

create_basic_conf(f, conf_path, repo_name) ==
  write(f, conf_path, ConfContent(repo_name))

RECURSIVE CopyItems(_, _, _)
CopyItems(f, items, target_path) ==
  IF items = {} THEN f
  ELSE LET item == CHOOSE q \in items : TRUE
           dst == target_path \o <<Name(item)>>
           f1 == IF is_file(f, item)
                 THEN IF suffix(Name(item)) \in TextSuffixes
                      THEN write(f, dst, preprocess_file_content(f[item].data))
                      ELSE IF suffix(Name(item)) \in PlainSuffixes
                           THEN write(f, dst, f[item].data)
                           ELSE f
                 ELSE IF is_dir(f, item) /\ Name(item) \notin ExcludedDirs
                      THEN copytree(f, item, dst)
                      ELSE f
       IN CopyItems(f1, items \ {item}, target_path)

TargetPath(repo_name) == source_dir \o <<repo_name>>

process_sphinx_docs(f, dp, repo_name) ==
  LET target_path == TargetPath(repo_name)
      f1 == mkdir(f, target_path)
      f2 == CopyItems(f1, iterdir(f1, dp), target_path)
  IN create_basic_conf(f2, target_path \o <<"conf.py">>, repo_name)

BuildPath(repo_name) == HtmlDir \o <<repo_name>>

(* what build_sphinx_docs returns for each outcome of the subprocess *)
BuildOutcomes == {"ok", "nonzero", "exception"}
build_result(outcome) == outcome = "ok"

build_sphinx_docs(f, repo_name, outcome) ==
  LET f1 == mkdir(f, BuildPath(repo_name))
  IN IF outcome = "ok"
     THEN write(f1, BuildPath(repo_name) \o <<"index.html">>, <<"html", repo_name>>)
     ELSE f1

IndexEntries(cfg) ==
  [k \in 1..Len(cfg) |->
     [href |-> <<cfg[k].name, "index.html">>,
      text |-> cfg[k].name,
      type |-> Get(cfg[k], "type", "unknown")]]

DispatchType(repo_config) == Get(repo_config, "type", "sphinx")

(* success_count += 1 whatever build_sphinx_docs returned *)
Credit_always(count, ok) == count + 1
Credit(count, ok) == IF ok THEN count + 1 ELSE count

(* `break` in place of `continue` *)
NextRepo_break(k, n) == n + 1
(* the index of the loop after `continue` or the end of the loop body *)
NextRepo(k, n) == k + 1

(* sys.exit(1) also after a single success *)
ExitStatus_offbyone(count) == IF count <= 1 THEN 1 ELSE 0
ExitStatus(count) == IF count = 0 THEN 1 ELSE 0

Call(op, n, ret) == [op |-> op, name |-> n, ret |-> ret]

(* ------------------------------ actions -------------------------------- *)
(* DocumentationBuilder.__init__ *)
Construct ==
  /\ pc = "new"
  /\ fs' = mkdir(mkdir(mkdir(fs, build_dir), temp_dir), source_dir)
  /\ pc' = "ready"
  /\ UNCHANGED <<config, remote, i, doc_path, source_path, success_count,
                 total_count, calls, exit_status, content, processed>>

(* build_all up to the loop: clean_directories and the two counters *)
CleanDirectories ==
  /\ pc = "ready"
  /\ fs' = clean_directories(fs)
  /\ IF Raised(fs')
     THEN /\ pc' = "exited"
          /\ exit_status' = 1
          /\ UNCHANGED <<success_count, total_count, i>>
     ELSE /\ success_count' = 0
          /\ total_count' = Len(config)
          /\ i' = 1
          /\ pc' = "loop"
          /\ UNCHANGED exit_status
  /\ UNCHANGED <<config, remote, doc_path, source_path, calls, content, processed>>

(* one iteration's fetch_repository and the `if not doc_path: continue` *)
FetchRepository ==
  /\ pc = "loop"
  /\ i <= Len(config)
  /\ LET repo_config == config[i]
         res == fetch_repository(fs, repo_config, remote[repo_config.url])
     IN /\ fs' = res.fs
        /\ doc_path' = res.doc_path
        /\ calls' = Append(calls, Call("fetch", repo_config.name, res.doc_path # None))
        /\ IF res.doc_path = None
           THEN /\ i' = NextRepo(i, Len(config))
                /\ pc' = "loop"
           ELSE /\ pc' = "dispatch"
                /\ UNCHANGED i
  /\ UNCHANGED <<config, remote, source_path, success_count, total_count,
                 exit_status, content, processed>>

ProcessSphinxDocs ==
  /\ pc = "dispatch"
  /\ DispatchType(config[i]) = "sphinx"
  /\ fs' = process_sphinx_docs(fs, doc_path, config[i].name)
  /\ source_path' = TargetPath(config[i].name)
  /\ calls' = Append(calls, Call("normalize", config[i].name, TRUE))
  /\ pc' = "build"
  /\ UNCHANGED <<config, remote, i, doc_path, success_count, total_count,
                 exit_status, content, processed>>

UnsupportedType ==
  /\ pc = "dispatch"
  /\ DispatchType(config[i]) # "sphinx"
  /\ i' = NextRepo(i, Len(config))
  /\ pc' = "loop"
  /\ UNCHANGED <<config, remote, fs, doc_path, source_path, success_count,
                 total_count, calls, exit_status, content, processed>>

BuildSphinxDocs ==
  /\ pc = "build"
  /\ \E outcome \in BuildOutcomes :
       /\ fs' = build_sphinx_docs(fs, config[i].name, outcome)
       /\ calls' = Append(calls, Call("build", config[i].name, build_result(outcome)))
       /\ success_count' = Credit(success_count, build_result(outcome))
  /\ i' = NextRepo(i, Len(config))
  /\ pc' = "loop"
  /\ UNCHANGED <<config, remote, doc_path, source_path, total_count,
                 exit_status, content, processed>>

(* create_index_page; open() raises FileNotFoundError when _build/html is  *)
(* missing, and the uncaught exception ends the process with status 1      *)
CreateIndexPage ==
  /\ pc = "loop"
  /\ i > Len(config)
  /\ IF is_dir(fs, HtmlDir)
     THEN /\ \E now \in 1..MaxClock :
               fs' = write(fs, IndexPath,
                           [entries |-> IndexEntries(config), updated |-> now])
          /\ pc' = "report"
          /\ UNCHANGED exit_status
     ELSE /\ pc' = "exited"
          /\ exit_status' = 1
          /\ UNCHANGED fs
  /\ UNCHANGED <<config, remote, i, doc_path, source_path, success_count,
                 total_count, calls, content, processed>>

(* the end of build_all: sys.exit(1) when nothing was built, else return *)
Report ==
  /\ pc = "report"
  /\ exit_status' = ExitStatus(success_count)
  /\ pc' = "exited"
  /\ UNCHANGED <<config, remote, fs, i, doc_path, source_path, success_count,
                 total_count, calls, content, processed>>

(* process_sphinx_docs on one text file: read, preprocess, write *)
RewriteTextFile ==
  /\ pc = "read"
  /\ processed' = preprocess_file_content(content)
  /\ pc' = "written"
  /\ UNCHANGED <<config, remote, fs, i, doc_path, source_path, success_count,
                 total_count, calls, exit_status, content>>

(* ------------------------ initial states ------------------------------- *)
Stale(root) ==
  IF root = build_dir
  THEN (root :> Dir) @@ (HtmlDir :> Dir) @@ (IndexPath :> File(<<"stale">>))
       @@ (BuildPath("A") :> Dir) @@ (BuildPath("B") :> Dir)
  ELSE (root :> Dir) @@ (root \o <<"A">> :> Dir)
       @@ (root \o <<"A", "conf.py">> :> File(<<"stale">>))

PriorRoot(root) == {EmptyFs, (root :> Dir), Stale(root)}

PriorFilesystems ==
  {a @@ b @@ c : a \in PriorRoot(temp_dir), b \in PriorRoot(build_dir),
                 c \in PriorRoot(source_dir)}

InitWith(configs, family, filesystems) ==
  /\ config \in configs
  /\ remote \in [{config[k].url : k \in DOMAIN config} -> RemoteStates(family)]
  /\ fs \in filesystems
  /\ pc = "new"
  /\ i = 0
  /\ doc_path = None
  /\ source_path = None
  /\ success_count = 0
  /\ total_count = 0
  /\ calls = <<>>
  /\ exit_status = -1
  /\ content = <<>>
  /\ processed = <<>>

Init == InitWith(Configs, SmallDocs, PriorFilesystems)

Next ==
  \/ Construct
  \/ CleanDirectories
  \/ FetchRepository
  \/ ProcessSphinxDocs
  \/ UnsupportedType
  \/ BuildSphinxDocs
  \/ CreateIndexPage
  \/ Report

Spec == Init /\ [][Next]_vars

(* one sphinx-dispatched or unsupported repository, any documentation directory *)
InitNormalize ==
  InitWith({c \in Configs : Len(c) = 1}, SUBSET DocItems, {EmptyFs})

SpecNormalize == InitNormalize /\ [][Next]_vars

RECURSIVE Texts(_)
Texts(n) ==
  IF n = 0 THEN {<<>>}
  ELSE Texts(n - 1) \cup
       {Append(t, tok) : t \in {t \in Texts(n - 1) : Len(t) = n - 1}, tok \in Tokens}

InitText ==
  /\ content \in Texts(MaxLen)
  /\ processed = <<>>
  /\ pc = "read"
  /\ config = <<>>
  /\ remote = <<>>
  /\ fs = EmptyFs
  /\ i = 0
  /\ doc_path = None
  /\ source_path = None
  /\ success_count = 0
  /\ total_count = 0
  /\ calls = <<>>
  /\ exit_status = -1

NextText == RewriteTextFile

SpecText == InitText /\ [][NextText]_vars

(* ------------------------------ claims --------------------------------- *)
Running == pc \notin {"new", "ready"}
Finished == pc \in {"report", "exited"}
Idx(n) == CHOOSE k \in DOMAIN config : config[k].name = n
CallsOf(op, n) == {k \in DOMAIN calls : calls[k].op = op /\ calls[k].name = n}
Roots == {temp_dir, build_dir, source_dir}

(* C1: every run that finishes the repository list has generated        *)
(* _build/html/index.html, listing every configured repository, also    *)
(* when no build was attempted and the run exits 1.                     *)
C1_IndexAlwaysGenerated ==
  pc = "exited" =>
    /\ is_file(fs, IndexPath)
    /\ Len(fs[IndexPath].data.entries) = Len(config)

(* C2: the exit status is 0 exactly when at least one repository built  *)
(* successfully and 1 when none did; partial failure still exits 0.     *)
C2_ExitStatus ==
  pc = "exited" =>
    /\ exit_status \in {0, 1}
    /\ exit_status = 0 <=> success_count >= 1
    /\ exit_status = 0 <=> \E k \in DOMAIN calls : calls[k].op = "build" /\ calls[k].ret

C2_PartialFailureExitsZero ==
  /\ pc = "exited"
  /\ exit_status = 0
  /\ success_count < total_count
  /\ \E k \in DOMAIN calls : ~calls[k].ret

(* C3: a repository whose clone fails or whose documentation directory  *)
(* is absent gets "unavailable" from fetch, is never normalized, never  *)
(* built, never credited, and html/{name}/ is never created in the run. *)
C3_UnavailableNeverBuilt ==
  Running =>
    /\ success_count <=
         Cardinality({k \in DOMAIN config :
                        \E c \in CallsOf("fetch", config[k].name) : calls[c].ret})
    /\ \A k \in DOMAIN config :
         LET n == config[k].name
             r == remote[config[k].url]
         IN (~r.reachable \/ ~r.has_docs
               \/ \E c \in CallsOf("fetch", n) : ~calls[c].ret) =>
              /\ \A c \in CallsOf("fetch", n) : ~calls[c].ret
              /\ CallsOf("normalize", n) = {}
              /\ CallsOf("build", n) = {}
              /\ ~exists(fs, BuildPath(n))
              /\ ~exists(fs, TargetPath(n))

C3_UnavailableSkipped ==
  /\ pc = "exited"
  /\ \E k \in DOMAIN calls : calls[k].op = "fetch" /\ ~calls[k].ret
  /\ \E k \in DOMAIN calls : calls[k].op = "build"

(* C4: repositories are processed one at a time in configuration order, *)
(* each one's fetch, normalize and build before the next one's fetch,   *)
(* and every repository is fetched exactly once whatever failed before. *)
OpRank(op) == CASE op = "fetch" -> 1 [] op = "normalize" -> 2 [] op = "build" -> 3

C4_SequentialInOrder ==
  Running =>
    /\ \A a, b \in DOMAIN calls :
         a < b => \/ Idx(calls[a].name) < Idx(calls[b].name)
                  \/ /\ calls[a].name = calls[b].name
                     /\ OpRank(calls[a].op) < OpRank(calls[b].op)
    /\ \A k \in DOMAIN config :
         Cardinality(CallsOf("fetch", config[k].name)) =
           IF k < i \/ (k = i /\ pc \in {"dispatch", "build"}) THEN 1 ELSE 0
    /\ Finished => \A k \in DOMAIN config :
                     Cardinality(CallsOf("fetch", config[k].name)) = 1

C4_LaterFetchedAfterFailures ==
  /\ pc = "exited"
  /\ \E a, b, c \in DOMAIN calls :
       /\ a < b /\ b < c
       /\ calls[a].op = "fetch" /\ ~calls[a].ret
       /\ calls[b].op = "fetch" /\ calls[b].ret
       /\ calls[c].op = "build" /\ ~calls[c].ret

(* C5: the output of the link-stripping transform holds no occurrence   *)
(* of any strip-substring, whatever the input text.                     *)
C5_NoStripSubstringRemains ==
  pc = "written" =>
    \A k \in DOMAIN urls_to_remove : ~Contains(processed, urls_to_remove[k])

(* C6: before the first fetch the three workspace directories exist and *)
(* are empty whatever they held before; clean_directories never fails   *)
(* on an absent directory and is idempotent.                            *)
C6_CleanWorkspace ==
  LET cleaned == clean_directories(fs)
  IN /\ (pc = "loop" /\ calls = <<>>) =>
          \A root \in Roots : is_dir(fs, root) /\ Children(fs, root) = {root}
     /\ ~Raised(cleaned)
     /\ \A root \in Roots : is_dir(cleaned, root) /\ Children(cleaned, root) = {root}
     /\ clean_directories(cleaned) = cleaned

C6_BeforeFirstFetch ==
  /\ pc = "loop"
  /\ calls = <<>>
  /\ i = 1
  /\ Len(config) >= 1

(* C7: the landing page has one entry per configured repository, in     *)
(* configuration order, linking to {name}/index.html and annotated with *)
(* the type the orchestrator dispatches on (default "sphinx").          *)
C7_IndexEntries ==
  (Finished /\ is_file(fs, IndexPath)) =>
    fs[IndexPath].data.entries =
      [k \in 1..Len(config) |->
         [href |-> <<config[k].name, "index.html">>,
          text |-> config[k].name,
          type |-> DispatchType(config[k])]]

(* C8: the output of the link-stripping transform is the same for every *)
(* order of the strip list.                                             *)
Permuted(urls, perm) == [k \in DOMAIN urls |-> urls[perm[k]]]

C8_OrderIndependent ==
  pc = "written" =>
    \A perm \in Permutations(DOMAIN urls_to_remove) :
      StripEach(content, Permuted(urls_to_remove, perm)) = processed

(* C9: success_count is the number of processed repositories that were  *)
(* fetched, dispatched as sphinx and built successfully; it lies        *)
(* between 0 and the number processed, which is at most total_count; a  *)
(* repository of another type is fetched, never normalized or built.    *)
Built(k) ==
  /\ \E c \in CallsOf("fetch", config[k].name) : calls[c].ret
  /\ DispatchType(config[k]) = "sphinx"
  /\ \E c \in CallsOf("build", config[k].name) : calls[c].ret

C9_SuccessCount ==
  Running =>
    /\ success_count = Cardinality({k \in 1..(i - 1) : Built(k)})
    /\ 0 <= success_count
    /\ success_count <= i - 1
    /\ i - 1 <= total_count
    /\ total_count = Len(config)
    /\ \A k \in 1..(i - 1) :
         DispatchType(config[k]) # "sphinx" =>
           /\ Cardinality(CallsOf("fetch", config[k].name)) = 1
           /\ CallsOf("normalize", config[k].name) = {}
           /\ CallsOf("build", config[k].name) = {}

C9_MixedOutcomes ==
  /\ pc = "exited"
  /\ success_count = 1
  /\ total_count = 2
  /\ \E k \in DOMAIN config :
       /\ DispatchType(config[k]) = "other"
       /\ \E c \in CallsOf("fetch", config[k].name) : calls[c].ret

(* C10: after process_sphinx_docs a top-level entry of the source       *)
(* documentation directory is in the repository's normalized directory  *)
(* exactly when it is a .rst, .md or .txt file or a directory other     *)
(* than _build and __pycache__; the only other entry is conf.py, always *)
(* the synthesized one.                                                 *)
Normalized(n) == CallsOf("normalize", n) # {}
SourceDocs(repo_config) ==
  temp_dir \o <<repo_config.name, Get(repo_config, "dir", "docs")>>

C10_NormalizedEntries ==
  \A k \in DOMAIN config :
    LET n == config[k].name
        src == SourceDocs(config[k])
        dst == TargetPath(n)
    IN Normalized(n) =>
         /\ \A q \in iterdir(fs, src) :
              Name(q) # "conf.py" =>
                (exists(fs, dst \o <<Name(q)>>) <=>
                   \/ is_file(fs, q) /\ suffix(Name(q)) \in {".rst", ".md", ".txt"}
                   \/ is_dir(fs, q) /\ Name(q) \notin {"_build", "__pycache__"})
         /\ \A q \in iterdir(fs, dst) :
              Name(q) # "conf.py" =>
                /\ exists(fs, src \o <<Name(q)>>)
                /\ fs[q].kind = fs[src \o <<Name(q)>>].kind
         /\ fs[dst \o <<"conf.py">>] = File(ConfContent(n))

C10_MixedSource ==
  \E k \in DOMAIN config :
    /\ Normalized(config[k].name)
    /\ {Name(q) : q \in iterdir(fs, SourceDocs(config[k]))} =
         {it.name : it \in DocItems}

====
